---- MODULE Spec2Model ----
(***************************************************************************)
(* LED lamp firmware (button.c, led.c): button debouncer, fade engine,     *)
(* ambient-light scaler, profile manager and input dispatcher; and the     *)
(* modules under them: the light sensor driver (tsl2591.c), the I2C        *)
(* transport (i2c_ext.c) and the logger (log.c).                           *)
(*                                                                         *)
(* Number encodings used throughout:                                       *)
(*  - unsigned char words are the integers 0..255;                         *)
(*  - a uint32_t bit pattern is held as the integer congruent to it        *)
(*    modulo 2^32 that lies in -2^31 .. 2^31-1 (so UINT32_MAX is -1 and    *)
(*    0 - 1 wraps to UINT32_MAX); + - * on such integers are the C         *)
(*    operations modulo 2^32, and the unsigned order and the unsigned      *)
(*    division are ULt and UDiv below;                                     *)
(*  - a non-negative IEEE-754 binary32 value is the pair <<m, e>> of its   *)
(*    24-bit significand (2^23 <= m < 2^24) and exponent, value m * 2^e;   *)
(*    zero is <<0, 0>>.  The operations round to nearest, ties to even.    *)
(*    Only the subtraction 1 - p can yield a negative value, which is the  *)
(*    pair <<-m, e>>.                                                      *)
(***************************************************************************)
EXTENDS Integers, Sequences, FiniteSets, TLC

\* ------------------------------------------------------------------------
\* Bounds of the exploration
\* ------------------------------------------------------------------------
\* largest brightness step offered to led_brightness_step_set
MaxStep == 2
\* largest brightness the shell's setb command is given, and the level up
\* to which the fade timer interrupt is explored in the system specification
MaxLevel == 3
\* cap of the observation counter held
MaxHeld == 6
\* number of fade ticks explored by the specification of the fade engine
MaxTicks == 7
\* cap of the count of status polls made by one tsl2591_lux_get call
MaxPolls == 3
\* power presses counted during one led_sw_enable_set call of the main loop
MaxPresses == 2

\* ------------------------------------------------------------------------
\* Program constants
\* ------------------------------------------------------------------------
BUTTON_POWER == 1
BUTTON_CHANGE_PROFILE == 16
LED_BRIGHTNESS_EXP_POINT == 100
LED_LUX_CHANGE_HYSTERESIS == 30
LED_MAX_LUX_SENSITIVITY == 255
LED_ONBOARD_RED == 0
LED_ONBOARD_BLUE == 1
LED_ONBOARD_GREEN == 2
num_profiles == 3
UINT32_MAX == -1
TSL2591_DEVICE_ID == 80
MAX_BUSY_POLL_ATTEMPTS == 5000
I2C_MASTER_ERR_MAX_ATTEMPTS == 1
LOG_NUM_SUB_SYSTEMS == 5
LOG_SUB_SYSTEM_LED == 0
LOG_SUB_SYSTEM_I2C0 == 4
LOG_LEVEL_INFO_ONLY == 0
LOG_LEVEL_DEBUG == 1
LOG_LEVEL_WARNING == 2
LOG_LEVEL_ERROR == 3
LOG_LEVEL_CRITICAL == 4
LOG_LEVEL_NONE == 5

led_profile_list ==
  <<[led1_type |-> LED_ONBOARD_BLUE, led1_brightness |-> 100,
     led2_type |-> LED_ONBOARD_GREEN, led2_brightness |-> 255],
    [led1_type |-> LED_ONBOARD_BLUE, led1_brightness |-> 0,
     led2_type |-> LED_ONBOARD_GREEN, led2_brightness |-> 255],
    [led1_type |-> LED_ONBOARD_BLUE, led1_brightness |-> 0,
     led2_type |-> LED_ONBOARD_GREEN, led2_brightness |-> 100]>>

\* ------------------------------------------------------------------------
\* unsigned char bit operations
\* ------------------------------------------------------------------------
BitAt(x, b) == (x \div (2^b)) % 2

Pack(f) == f[0] + 2*f[1] + 4*f[2] + 8*f[3] + 16*f[4] + 32*f[5] + 64*f[6] + 128*f[7]

BitXor(x, y) == Pack([b \in 0..7 |-> (BitAt(x, b) + BitAt(y, b)) % 2])

BitAnd(x, y) == Pack([b \in 0..7 |-> BitAt(x, b) * BitAt(y, b)])

BitOr(x, y) == Pack([b \in 0..7 |-> IF BitAt(x, b) + BitAt(y, b) > 0 THEN 1 ELSE 0])

\* ~x truncated to unsigned char
BitNot(x) == 255 - x

\* ------------------------------------------------------------------------
\* uint32_t comparisons and division
\* ------------------------------------------------------------------------
ULt(a, b) == IF (a < 0) = (b < 0) THEN a < b ELSE b < 0

UGt(a, b) == ULt(b, a)

\* a / d on uint32_t, 2 <= d; 2^32 = 2 * 2147483647 + 2
UDiv(a, d) ==
  IF a >= 0 THEN a \div d
  ELSE 2 * (2147483647 \div d) + ((2 * (2147483647 % d) + 2 + a) \div d)

\* ------------------------------------------------------------------------
\* binary32 arithmetic
\* ------------------------------------------------------------------------
FZero == <<0, 0>>

FOne == <<8388608, -23>>

RECURSIVE Normalize(_, _)
Normalize(m, e) ==
  IF m = 0 THEN FZero
  ELSE IF m < 8388608 THEN Normalize(2 * m, e - 1)
  ELSE <<m, e>>

\* (float) n for an unsigned n < 2^24 (exact)
U2F(n) == Normalize(n, 0)

\* round the significand q (2^23 <= q < 2^24) up by one unit when up holds
RoundSig(q, e, up) ==
  IF ~up THEN <<q, e>>
  ELSE IF q + 1 = 16777216 THEN <<8388608, e + 1>>
  ELSE <<q + 1, e>>

RECURSIVE LongDiv(_, _, _, _)
LongDiv(q, r, d, n) ==
  IF n = 0 THEN <<q, r>>
  ELSE IF 2 * r >= d THEN LongDiv(2 * q + 1, 2 * r - d, d, n - 1)
  ELSE LongDiv(2 * q, 2 * r, d, n - 1)

\* x / y, y # 0
FDiv(x, y) ==
  IF x[1] = 0 THEN FZero
  ELSE LET ge == x[1] >= y[1]
           qr == IF ge THEN LongDiv(1, x[1] - y[1], y[1], 23)
                 ELSE LongDiv(0, x[1], y[1], 24)
           e  == IF ge THEN x[2] - y[2] - 23 ELSE x[2] - y[2] - 24
           q  == qr[1]
           r  == qr[2]
       IN RoundSig(q, e, 2 * r > y[1] \/ (2 * r = y[1] /\ q % 2 = 1))

\* x * y; the 48-bit product is formed from 12-bit limbs
FMul(x, y) ==
  IF x[1] = 0 \/ y[1] = 0 THEN FZero
  ELSE LET a1 == x[1] \div 4096
           a0 == x[1] % 4096
           b1 == y[1] \div 4096
           b0 == y[1] % 4096
           mid == a1 * b0 + a0 * b1
           losum == a0 * b0 + (mid % 4096) * 4096
           lo == losum % 16777216
           hi == a1 * b1 + (mid \div 4096) + (losum \div 16777216)
           big == hi >= 8388608
           q == IF big THEN hi ELSE 2 * hi + (lo \div 8388608)
           rest == IF big THEN lo ELSE lo % 8388608
           half == IF big THEN 8388608 ELSE 4194304
           e == IF big THEN x[2] + y[2] + 24 ELSE x[2] + y[2] + 23
       IN RoundSig(q, e, rest > half \/ (rest = half /\ q % 2 = 1))

\* 1 - p for 0 <= p < 2^23; the difference is exact when p >= 1, and
\* negative when p > 1
OneMinus(p) ==
  IF p[1] = 0 THEN FOne
  ELSE IF p[2] >= -23
  THEN LET d == Normalize(p[1] - 2^(-p[2]), p[2])
       IN <<-d[1], d[2]>>
  ELSE IF p[2] = -24 THEN Normalize(16777216 - p[1], -24)
  ELSE LET k == -24 - p[2]
       IN IF k >= 25 THEN FOne
          ELSE LET q == p[1] \div (2^k)
                   r == p[1] % (2^k)
                   half == 2^(k - 1)
                   X == 16777216 - q
                   Y == IF r < half THEN X
                        ELSE IF r > half THEN X - 1
                        ELSE IF X % 2 = 0 THEN X ELSE X - 1
               IN IF Y = 16777216 THEN FOne ELSE <<Y, -24>>

\* (uint32_t) x, truncation toward zero, x < 2^31
F2U(x) ==
  IF x[2] >= 0 THEN x[1] * (2^(x[2]))
  ELSE IF -x[2] >= 31 THEN 0
  ELSE x[1] \div (2^(-x[2]))

\* ------------------------------------------------------------------------
\* State
\* ------------------------------------------------------------------------
VARIABLES
  state, cnt0, cnt1,        \* statics of debounce()
  sample, toggle,           \* TIMER0A_Handler: the sample it read last and the
                            \*  toggle mask debounce() returned for it
  held,                     \* held[b]: number of consecutive debounce() calls,
                            \*  up to the last one, whose sample bit b differed
                            \*  from the debounced state bit (capped at MaxHeld)
  LED_LIST,                 \* per LED: current/previous/desired brightness
  pwm_enable, pulsewidth,   \* PWM output enable bit and pulse width per LED
  current_profile_index, brightness_interval, lux_sensor_sensitivity,
  max_lux, brightness_scale, lux_sensor_found, sw_enable,
  current_lux,              \* static of TIMER1B_Handler
  timerA, timerB,           \* enable bits of TIMER1 A (fade) and B (lux)
  ticks, from,              \* fade ticks since the fade was set up, and the
                            \*  current brightnesses it started from
  op,                       \* the handler or command that ran last, its inputs
  i2c,                      \* the i2c_register_read/write call in progress
  tsl,                      \* the tsl2591_lux_get call in progress
  sub_system_levels,        \* log.c: output level of each subsystem
  shell,                    \* the led_sw_enable_set call of the main loop
                            \*  that is in progress
  writers                   \* per shared field, the execution contexts that
                            \*  have changed it (kept only where it is asked
                            \*  for: <<>> elsewhere)

btn_vars == <<state, cnt0, cnt1, sample, toggle, held>>

led_vars == <<LED_LIST, pwm_enable, pulsewidth, current_profile_index,
              brightness_interval, lux_sensor_sensitivity, max_lux,
              brightness_scale, lux_sensor_found, sw_enable, current_lux,
              timerA, timerB>>

drv_vars == <<i2c, tsl, sub_system_levels, shell>>

vars == <<btn_vars, led_vars, ticks, from, op, drv_vars, writers>>

num_leds == 3

Leds == 0..(num_leds - 1)

\* the module state of led.c as one value, threaded through the functions
Led ==
  [LED_LIST |-> LED_LIST, pwm_enable |-> pwm_enable, pulsewidth |-> pulsewidth,
   current_profile_index |-> current_profile_index,
   brightness_interval |-> brightness_interval,
   lux_sensor_sensitivity |-> lux_sensor_sensitivity, max_lux |-> max_lux,
   brightness_scale |-> brightness_scale, lux_sensor_found |-> lux_sensor_found,
   sw_enable |-> sw_enable, current_lux |-> current_lux,
   timerA |-> timerA, timerB |-> timerB]

SetLed(L) ==
  \E M \in {L} :
    /\ LED_LIST' = M.LED_LIST
    /\ pwm_enable' = M.pwm_enable
    /\ pulsewidth' = M.pulsewidth
    /\ current_profile_index' = M.current_profile_index
    /\ brightness_interval' = M.brightness_interval
    /\ lux_sensor_sensitivity' = M.lux_sensor_sensitivity
    /\ max_lux' = M.max_lux
    /\ brightness_scale' = M.brightness_scale
    /\ lux_sensor_found' = M.lux_sensor_found
    /\ sw_enable' = M.sw_enable
    /\ current_lux' = M.current_lux
    /\ timerA' = M.timerA
    /\ timerB' = M.timerB

\* a, b: its arguments; c, d: what it read from the state (lux tick only)
Op(name, a, b, c, d) == [name |-> name, a |-> a, b |-> b, c |-> c, d |-> d]

\* ------------------------------------------------------------------------
\* button.c
\* ------------------------------------------------------------------------
\* debounce() with the second counter bit lost: a one-bit vertical counter
debounce_short(st, c0, c1, smp) ==
  LET delta == BitXor(smp, st)
      n1 == 0
      n0 == BitAnd(BitNot(c0), delta)
      tg == BitAnd(delta, BitNot(BitOr(n0, n1)))
  IN [state |-> BitXor(st, tg), cnt0 |-> n0, cnt1 |-> n1, toggle |-> tg]

\* debounce() with cnt0 & cnt1 in place of cnt0 | cnt1 in the toggle mask
debounce_and(st, c0, c1, smp) ==
  LET delta == BitXor(smp, st)
      n1 == BitAnd(BitXor(c1, c0), delta)
      n0 == BitAnd(BitNot(c0), delta)
      tg == BitAnd(delta, BitNot(BitAnd(n0, n1)))
  IN [state |-> BitXor(st, tg), cnt0 |-> n0, cnt1 |-> n1, toggle |-> tg]

\* debounce() whose counters are not masked with delta: they run on while
\* the sample matches the state
debounce_freerunning(st, c0, c1, smp) ==
  LET delta == BitXor(smp, st)
      n1 == BitXor(c1, c0)
      n0 == BitNot(c0)
      tg == BitAnd(delta, BitNot(BitOr(n0, n1)))
  IN [state |-> BitXor(st, tg), cnt0 |-> n0, cnt1 |-> n1, toggle |-> tg]

\* debounce() with state |= *toggle in place of state ^= *toggle
debounce_or(st, c0, c1, smp) ==
  LET delta == BitXor(smp, st)
      n1 == BitAnd(BitXor(c1, c0), delta)
      n0 == BitAnd(BitNot(c0), delta)
      tg == BitAnd(delta, BitNot(BitOr(n0, n1)))
  IN [state |-> BitOr(st, tg), cnt0 |-> n0, cnt1 |-> n1, toggle |-> tg]

debounce(st, c0, c1, smp) ==
  LET delta == BitXor(smp, st)
      n1 == BitAnd(BitXor(c1, c0), delta)
      n0 == BitAnd(BitNot(c0), delta)
      tg == BitAnd(delta, BitNot(BitOr(n0, n1)))
  IN [state |-> BitXor(st, tg), cnt0 |-> n0, cnt1 |-> n1, toggle |-> tg]

\* ------------------------------------------------------------------------
\* led.c
\* ------------------------------------------------------------------------
\* led_update_hw_start that does not enable the timer
led_update_hw_start_idle(L) == L

\* led_update_hw_start that flips the enable bit
led_update_hw_start_toggle(L) == [L EXCEPT !.timerA = ~L.timerA]

led_update_hw_start(L) == [L EXCEPT !.timerA = TRUE]

led_sw_enable_get(L) == L.sw_enable

\* led_sw_brightness_set that writes the brightness to every LED
led_sw_brightness_set_all(L, led_type, brightness) ==
  [L EXCEPT !.LED_LIST = [i \in Leds |->
                            [L.LED_LIST[i] EXCEPT !.desired_brightness = brightness]]]

led_sw_brightness_set(L, led_type, brightness) ==
  [L EXCEPT !.LED_LIST[led_type].desired_brightness = brightness]

\* led_hw_brightness_set that leaves the output enabled at brightness 0
led_hw_brightness_set_stayon(L, led_type, brightness) ==
  LET out == IF brightness = 0 THEN L.pwm_enable[led_type]
             ELSE IF ~L.pwm_enable[led_type] THEN TRUE
             ELSE L.pwm_enable[led_type]
      new_pulsewidth ==
             IF ~ULt(brightness, LED_BRIGHTNESS_EXP_POINT)
             THEN UDiv(brightness * brightness, LED_BRIGHTNESS_EXP_POINT)
             ELSE brightness
  IN [L EXCEPT !.pwm_enable[led_type] = out,
               !.pulsewidth[led_type] = new_pulsewidth,
               !.LED_LIST[led_type].current_brightness = brightness]

\* led_hw_brightness_set dividing the square by twice the knee
led_hw_brightness_set_halved(L, led_type, brightness) ==
  LET out == IF brightness = 0 THEN FALSE
             ELSE IF ~L.pwm_enable[led_type] THEN TRUE
             ELSE L.pwm_enable[led_type]
      new_pulsewidth ==
             IF ~ULt(brightness, LED_BRIGHTNESS_EXP_POINT)
             THEN UDiv(brightness * brightness, 2 * LED_BRIGHTNESS_EXP_POINT)
             ELSE brightness
  IN [L EXCEPT !.pwm_enable[led_type] = out,
               !.pulsewidth[led_type] = new_pulsewidth,
               !.LED_LIST[led_type].current_brightness = brightness]

\* (the arguments are passed by value: a is the pair of their values)
led_hw_brightness_set(L0, led_type, brightness0) ==
  CHOOSE r \in
    {LET L == a[1]
         brightness == a[2]
         out == IF brightness = 0 THEN FALSE
                ELSE IF ~L.pwm_enable[led_type] THEN TRUE
                ELSE L.pwm_enable[led_type]
         new_pulsewidth ==
                IF ~ULt(brightness, LED_BRIGHTNESS_EXP_POINT)
                THEN UDiv(brightness * brightness, LED_BRIGHTNESS_EXP_POINT)
                ELSE brightness
     IN [L EXCEPT !.pwm_enable[led_type] = out,
                  !.pulsewidth[led_type] = new_pulsewidth,
                  !.LED_LIST[led_type].current_brightness = brightness]
       : a \in {<<L0, brightness0>>}} : TRUE

\* desired_brightness_w_scale = LED_LIST[i].desired_brightness * _brightness_scale
\* the fade target taken twice
Target_double(desired, scale) ==
  2 * F2U(FMul(U2F(desired), scale))

Target(desired, scale) ==
  CHOOSE r \in {F2U(p) : p \in {FMul(f[1], f[2]) :
                                  f \in {<<U2F(desired), scale>>}}} : TRUE

RECURSIVE FadeLoop(_, _, _)
FadeLoop(L0, i, no_change) ==
  CHOOSE r \in
    {IF i >= num_leds THEN <<L, no_change>>
     ELSE (CHOOSE q \in
       {LET current_brightness == L.LED_LIST[i].current_brightness
        IN IF UGt(current_brightness, desired_brightness_w_scale)
           THEN FadeLoop(led_hw_brightness_set(L, i,
                           current_brightness - L.brightness_interval), i + 1, FALSE)
           ELSE IF ULt(current_brightness, desired_brightness_w_scale)
           THEN FadeLoop(led_hw_brightness_set(L, i,
                           current_brightness + L.brightness_interval), i + 1, FALSE)
           ELSE FadeLoop(L, i + 1, no_change)
          : desired_brightness_w_scale \in
              {Target(L.LED_LIST[i].desired_brightness, L.brightness_scale)}}
       : TRUE)
       : L \in {L0}} : TRUE

\* TIMER1A_Handler that stops the timer as soon as the channels it has just
\* written are all on target
TIMER1A_Handler_eager(L) ==
  LET r == FadeLoop(L, 0, TRUE)
  IN IF \A i \in Leds : r[1].LED_LIST[i].current_brightness =
                          Target(r[1].LED_LIST[i].desired_brightness,
                                 r[1].brightness_scale)
     THEN [r[1] EXCEPT !.timerA = FALSE] ELSE r[1]

TIMER1A_Handler(L) ==
  CHOOSE q \in {IF r[2] THEN [r[1] EXCEPT !.timerA = FALSE] ELSE r[1]
                  : r \in {FadeLoop(L, 0, TRUE)}} : TRUE

\* the scale formula taken over new_lux in place of max_lux - new_lux
BrightnessScale_rising(sensitivity, max, new_lux) ==
  OneMinus(FMul(FDiv(U2F(sensitivity), U2F(LED_MAX_LUX_SENSITIVITY)),
                FDiv(U2F(new_lux), U2F(max))))

\* 1 - (((float)sensitivity / 255) * ((float)(max_lux - new_lux) / max_lux))
BrightnessScale(sensitivity, max, new_lux) ==
  OneMinus(FMul(FDiv(U2F(sensitivity), U2F(LED_MAX_LUX_SENSITIVITY)),
                FDiv(U2F(max - new_lux), U2F(max))))

\* the reading after the clamp to max_lux
ClampLux(L, lux) == IF UGt(lux, L.max_lux) THEN L.max_lux ELSE lux

\* the hysteresis tests with <= in place of <
LuxRejected_inclusive(cur, new_lux) ==
  \/ UGt(cur, new_lux) /\ ~UGt(cur - new_lux, LED_LUX_CHANGE_HYSTERESIS)
  \/ ULt(cur, new_lux) /\ ~UGt(new_lux - cur, LED_LUX_CHANGE_HYSTERESIS)

\* the two hysteresis tests of TIMER1B_Handler
LuxRejected(cur, new_lux) ==
  \/ UGt(cur, new_lux) /\ ULt(cur - new_lux, LED_LUX_CHANGE_HYSTERESIS)
  \/ ULt(cur, new_lux) /\ ULt(new_lux - cur, LED_LUX_CHANGE_HYSTERESIS)

\* TIMER1B_Handler that does not look at the software enable
TIMER1B_Handler_ungated(L, status, lux) ==
  IF L.timerA THEN L
  ELSE IF status # 0
  THEN [L EXCEPT !.brightness_scale = FOne, !.lux_sensor_found = FALSE,
                 !.timerB = FALSE]
  ELSE LET new_lux == ClampLux(L, lux)
       IN IF LuxRejected(L.current_lux, new_lux) THEN L
          ELSE led_update_hw_start(
                 [L EXCEPT !.brightness_scale =
                              BrightnessScale(L.lux_sensor_sensitivity,
                                              L.max_lux, new_lux),
                           !.current_lux = new_lux])

\* TIMER1B_Handler without the TimerDisable of the error path
TIMER1B_Handler_nodisable(L, status, lux) ==
  IF ~(~L.timerA /\ led_sw_enable_get(L)) THEN L
  ELSE IF status # 0
  THEN [L EXCEPT !.brightness_scale = FOne, !.lux_sensor_found = FALSE]
  ELSE LET new_lux == ClampLux(L, lux)
       IN IF LuxRejected(L.current_lux, new_lux) THEN L
          ELSE led_update_hw_start(
                 [L EXCEPT !.brightness_scale =
                              BrightnessScale(L.lux_sensor_sensitivity,
                                              L.max_lux, new_lux),
                           !.current_lux = new_lux])

\* status, lux: what tsl2591_lux_get returns and stores when it is called
TIMER1B_Handler(L, status, lux) ==
  IF ~(~L.timerA /\ led_sw_enable_get(L)) THEN L
  ELSE IF status # 0
  THEN [L EXCEPT !.brightness_scale = FOne, !.lux_sensor_found = FALSE,
                 !.timerB = FALSE]
  ELSE LET new_lux == ClampLux(L, lux)
       IN IF LuxRejected(L.current_lux, new_lux) THEN L
          ELSE led_update_hw_start(
                 [L EXCEPT !.brightness_scale =
                              BrightnessScale(L.lux_sensor_sensitivity,
                                              L.max_lux, new_lux),
                           !.current_lux = new_lux])

\* led_profile_load that does not look at the software enable
led_profile_load_always(L, index) ==
  IF index >= num_profiles THEN L
  ELSE LET p == led_profile_list[index + 1]
           L1 == led_sw_brightness_set(L, p.led1_type, p.led1_brightness)
           L2 == led_sw_brightness_set(L1, p.led2_type, p.led2_brightness)
           L3 == led_update_hw_start(L2)
       IN [L3 EXCEPT !.current_profile_index = index]

led_profile_load(L, index) ==
  IF L.sw_enable
  THEN IF index >= num_profiles THEN L
       ELSE LET p == led_profile_list[index + 1]
                L1 == led_sw_brightness_set(L, p.led1_type, p.led1_brightness)
                L2 == led_sw_brightness_set(L1, p.led2_type, p.led2_brightness)
                L3 == led_update_hw_start(L2)
            IN [L3 EXCEPT !.current_profile_index = index]
  ELSE L

\* led_profile_load_next without the wraparound of the index
led_profile_load_next_nowrap(L) ==
  IF L.sw_enable
  THEN LET L1 == [L EXCEPT !.current_profile_index = L.current_profile_index + 1]
       IN led_profile_load(L1, L1.current_profile_index)
  ELSE L

led_profile_load_next(L) ==
  IF L.sw_enable
  THEN LET L1 == [L EXCEPT !.current_profile_index =
                              (L.current_profile_index + 1) % num_profiles]
       IN led_profile_load(L1, L1.current_profile_index)
  ELSE L

RECURSIVE RestoreLoop(_, _)
RestoreLoop(L, i) ==
  IF i >= num_leds THEN L
  ELSE RestoreLoop(led_sw_brightness_set(L, i, L.LED_LIST[i].previous_brightness),
                   i + 1)

\* the disable loop saving the brightness after it has been zeroed
RECURSIVE SaveLoop_late(_, _)
SaveLoop_late(L, i) ==
  IF i >= num_leds THEN L
  ELSE LET L1 == led_sw_brightness_set(L, i, 0)
       IN SaveLoop_late([L1 EXCEPT !.LED_LIST[i].previous_brightness =
                                     L1.LED_LIST[i].desired_brightness], i + 1)

RECURSIVE SaveLoop(_, _)
SaveLoop(L, i) ==
  IF i >= num_leds THEN L
  ELSE SaveLoop(led_sw_brightness_set(
                  [L EXCEPT !.LED_LIST[i].previous_brightness =
                               L.LED_LIST[i].desired_brightness], i, 0),
                i + 1)

\* led_sw_enable_set without the test of the flag
led_sw_enable_set_unguarded(L, enable) ==
  LET L1 == IF enable THEN RestoreLoop(L, 0) ELSE SaveLoop(L, 0)
      L2 == led_update_hw_start(L1)
  IN [L2 EXCEPT !.sw_enable = enable]

led_sw_enable_set(L, enable) ==
  IF enable = L.sw_enable THEN L
  ELSE LET L1 == IF enable THEN RestoreLoop(L, 0) ELSE SaveLoop(L, 0)
           L2 == led_update_hw_start(L1)
       IN [L2 EXCEPT !.sw_enable = enable]

led_sw_enable_toggle(L) ==
  IF L.sw_enable THEN led_sw_enable_set(L, FALSE) ELSE led_sw_enable_set(L, TRUE)

\* the position after one pass of a loop of led_sw_enable_set
LoopNext(S, body) ==
  IF S.i + 1 >= num_leds THEN [S EXCEPT !.pc = "start", !.i = 0]
  ELSE [S EXCEPT !.pc = body, !.i = S.i + 1]

\* one statement of led_sw_enable_set(S.enable) run by the main loop, at
\* position S.pc: the test of the flag, a pass of the restore loop, the two
\* statements of a pass of the save loop, the call of led_update_hw_start()
\* and the store of the flag; the LED module's state and the position after it
led_sw_enable_set_step(L, S) ==
  CASE S.pc = "test" ->
         IF S.enable = L.sw_enable THEN <<L, [S EXCEPT !.pc = "idle"]>>
         ELSE <<L, [S EXCEPT !.pc = IF S.enable THEN "restore" ELSE "save",
                             !.i = 0]>>
    [] S.pc = "restore" ->
         <<led_sw_brightness_set(L, S.i, L.LED_LIST[S.i].previous_brightness),
           LoopNext(S, "restore")>>
    [] S.pc = "save" ->
         <<[L EXCEPT !.LED_LIST[S.i].previous_brightness =
                        L.LED_LIST[S.i].desired_brightness],
           [S EXCEPT !.pc = "zero"]>>
    [] S.pc = "zero" ->
         <<led_sw_brightness_set(L, S.i, 0), LoopNext(S, "save")>>
    [] S.pc = "start" ->
         <<led_update_hw_start(L), [S EXCEPT !.pc = "store"]>>
    [] S.pc = "store" ->
         <<[L EXCEPT !.sw_enable = S.enable], [S EXCEPT !.pc = "idle"]>>

\* led_lux_sensitivity_set that takes the scale again over the last reading
led_lux_sensitivity_set_rescaling(L, sensitivity) ==
  IF UGt(sensitivity, LED_MAX_LUX_SENSITIVITY) THEN L
  ELSE [L EXCEPT !.lux_sensor_sensitivity = sensitivity,
                 !.brightness_scale =
                    BrightnessScale(sensitivity, L.max_lux,
                                    ClampLux(L, L.current_lux))]

\* led_lux_sensitivity_set without the range check
led_lux_sensitivity_set_unchecked(L, sensitivity) ==
  [L EXCEPT !.lux_sensor_sensitivity = sensitivity]

\* led_lux_sensitivity_set storing the maximum for a value above it
led_lux_sensitivity_set_clamped(L, sensitivity) ==
  [L EXCEPT !.lux_sensor_sensitivity =
              IF UGt(sensitivity, LED_MAX_LUX_SENSITIVITY)
              THEN LED_MAX_LUX_SENSITIVITY ELSE sensitivity]

led_lux_sensitivity_set(L, sensitivity) ==
  IF UGt(sensitivity, LED_MAX_LUX_SENSITIVITY) THEN L
  ELSE [L EXCEPT !.lux_sensor_sensitivity = sensitivity]

\* the dispatch acting on every edge, press or release
Dispatch_anyedge(L, tg, st) ==
  LET L1 == IF BitAnd(tg, BUTTON_POWER) # 0 THEN led_sw_enable_toggle(L) ELSE L
  IN IF BitAnd(tg, BUTTON_CHANGE_PROFILE) # 0 THEN led_profile_load_next(L1)
     ELSE L1

\* the dispatch with the profile button's test before the power button's
Dispatch_profilefirst(L, tg, st) ==
  LET L1 == IF BitAnd(tg, BUTTON_CHANGE_PROFILE) # 0
            THEN IF BitAnd(st, BUTTON_CHANGE_PROFILE) # 0 THEN L
                 ELSE led_profile_load_next(L)
            ELSE L
  IN IF BitAnd(tg, BUTTON_POWER) # 0
     THEN IF BitAnd(st, BUTTON_POWER) # 0 THEN L1
          ELSE led_sw_enable_toggle(L1)
     ELSE L1

\* TIMER0A_Handler's dispatch on the outputs of debounce()
Dispatch(L, tg, st) ==
  LET L1 == IF BitAnd(tg, BUTTON_POWER) # 0
            THEN IF BitAnd(st, BUTTON_POWER) # 0 THEN L
                 ELSE led_sw_enable_toggle(L)
            ELSE L
  IN IF BitAnd(tg, BUTTON_CHANGE_PROFILE) # 0
     THEN IF BitAnd(st, BUTTON_CHANGE_PROFILE) # 0 THEN L1
          ELSE led_profile_load_next(L1)
     ELSE L1


\* ------------------------------------------------------------------------
\* Inputs
\* ------------------------------------------------------------------------
\* GPIOPinRead(BUTTON_GPIO_BASE, BUTTON_POWER | BUTTON_CHANGE_PROFILE) & 0xFF
Samples == {0, BUTTON_POWER, BUTTON_CHANGE_PROFILE,
            BUTTON_POWER + BUTTON_CHANGE_PROFILE}

\* ... with both buttons down or both up
BothSamples == {0, BUTTON_POWER + BUTTON_CHANGE_PROFILE}

\* ... with the power button left alone
ProfileSamples == {BUTTON_POWER, BUTTON_POWER + BUTTON_CHANGE_PROFILE}

\* status returned by tsl2591_lux_get: 0, or an I2C error
LuxStatus == {0, 1}

\* lux values the sensor reports
LuxInputs == {20, 49, 50, 250}

\* ... in the specification that fades over the whole brightness range
BootLuxInputs == {20, 250}

\* arguments of the shell commands
SensInputs == {0, 255, 300}

SetbInputs == {0, MaxLevel}

SetbLeds == {LED_ONBOARD_RED}

ProfileInputs == 0..num_profiles

\* sensitivities and lux values at and around the ends of their ranges
ScaleSens == {0, 1, 128, LED_MAX_LUX_SENSITIVITY, LED_MAX_LUX_SENSITIVITY + 1,
              300}

ScaleLux == {0, 1, 20, 100, 199, 200, 201, 250, UINT32_MAX}

\* the profile that lights the green LED alone, and the brightnesses at the
\* ends of the range
RangeProfile == 1

RangeSetb == {0, 255}

\* lengths of the transfers, and values I2CMasterErr() returns: none, or
\* an address that was not acknowledged
I2CBytes == {1, 2}

I2CErrors == {0, 4}

\* subsystems and levels given to the logger; LOG_NUM_SUB_SYSTEMS is no
\* subsystem
LogSystems == {LOG_SUB_SYSTEM_LED, LOG_SUB_SYSTEM_I2C0}

LogLevels == LOG_LEVEL_INFO_ONLY..LOG_LEVEL_NONE

\* a profile and an index past the last profile
FrameProfiles == {1, num_profiles}

\* device IDs the ID register read returns: the TSL2591's, and another
IdInputs == {TSL2591_DEVICE_ID, 0}

\* brightness scales a fade can run under
FadeScales == {FZero, FOne, BrightnessScale(255, 200, 100)}

\* ------------------------------------------------------------------------
\* Initial states
\* ------------------------------------------------------------------------
\* the shared fields of the LED module
Fields == {"current_brightness", "desired_brightness", "previous_brightness",
           "brightness_scale", "sw_enable", "current_profile_index"}

Pulse(brightness) ==
  IF brightness >= LED_BRIGHTNESS_EXP_POINT
  THEN (brightness * brightness) \div LED_BRIGHTNESS_EXP_POINT
  ELSE brightness

InitButton ==
  /\ state = 255
  /\ cnt0 = 0
  /\ cnt1 = 0
  /\ sample = 255
  /\ toggle = 0
  /\ held = [b \in 0..7 |-> 0]

\* no transfer in progress
I2CIdle ==
  [fn |-> "idle", pc |-> "idle", num_bytes |-> 0, step |-> 0, i |-> 0,
   wait |-> 0, status |-> 0, got |-> 0]

\* no lux read in progress
TslIdle ==
  [pc |-> "idle", polls |-> 0, completed_int_cycle |-> FALSE, status |-> 0,
   lux |-> 0]

\* the main loop outside led_sw_enable_set; L0 is the LED module's state when
\* the last call began, and presses the number of power presses that the
\* button interrupt dispatched while that call was running
ShellIdle(L) ==
  [pc |-> "idle", enable |-> FALSE, i |-> 0, L0 |-> L, presses |-> 0]

\* the sensor driver and the transport at rest; after log_init(); the main
\* loop before its first command
InitDrv ==
  /\ i2c = I2CIdle
  /\ tsl = TslIdle
  /\ sub_system_levels = [s \in 0..(LOG_NUM_SUB_SYSTEMS - 1) |-> 0]
  /\ shell = ShellIdle(Led)

\* the test taking any ID for the sensor's
SensorDetected_anyid(status, id) == status = 0

\* led_init()'s test of the device-ID read: its status and the ID it read
SensorDetected(status, id) == status = 0 /\ id = TSL2591_DEVICE_ID

\* the LED module after led_init(), the sensor found or not
InitLed(found) ==
  /\ LED_LIST = [i \in Leds |-> [current_brightness |-> 0,
                                 previous_brightness |-> 0,
                                 desired_brightness |-> 0]]
  /\ pwm_enable = [i \in Leds |-> FALSE]
  /\ pulsewidth = [i \in Leds |-> 0]
  /\ current_profile_index = 0
  /\ brightness_interval = 1
  /\ lux_sensor_sensitivity = 0
  /\ max_lux = 200
  /\ lux_sensor_found = found
  /\ brightness_scale = IF found THEN FZero ELSE FOne
  /\ sw_enable = TRUE
  /\ current_lux = UINT32_MAX
  /\ timerA = FALSE
  /\ timerB = found
  /\ ticks = 0
  /\ from = [i \in Leds |-> 0]

\* after led_init() and button_init()
Init ==
  /\ InitButton
  /\ \E found \in BOOLEAN : InitLed(found)
  /\ op = Op("led_init", 0, 0, 0, 0)
  /\ InitDrv
  /\ writers = <<>>

\* ... keeping the status and the ID of led_init()'s device-ID read
InitDetect ==
  /\ InitButton
  /\ \E status \in LuxStatus, id \in IdInputs :
       /\ InitLed(SensorDetected(status, id))
       /\ op = Op("led_init", status, id, 0, 0)
  /\ InitDrv
  /\ writers = <<>>

\* ... keeping the contexts that change each shared field
InitOwn ==
  /\ InitButton
  /\ \E found \in BOOLEAN : InitLed(found)
  /\ op = Op("led_init", 0, 0, 0, 0)
  /\ InitDrv
  /\ writers = [f \in Fields |-> {}]

\* a fade that has just been set up: any current and desired brightness up
\* to MaxLevel, any step from 1 to MaxStep, the fade timer running
InitFade ==
  /\ InitButton
  /\ LED_LIST \in [Leds -> [current_brightness : 0..MaxLevel,
                            previous_brightness : {0},
                            desired_brightness : 0..MaxLevel]]
  /\ pwm_enable = [i \in Leds |-> LED_LIST[i].current_brightness # 0]
  /\ pulsewidth = [i \in Leds |-> Pulse(LED_LIST[i].current_brightness)]
  /\ current_profile_index = 0
  /\ brightness_interval \in 1..MaxStep
  /\ lux_sensor_sensitivity = 0
  /\ max_lux = 200
  /\ lux_sensor_found = FALSE
  /\ brightness_scale \in FadeScales
  /\ sw_enable = TRUE
  /\ current_lux = UINT32_MAX
  /\ timerA = TRUE
  /\ timerB = FALSE
  /\ ticks = 0
  /\ from = [i \in Leds |-> LED_LIST[i].current_brightness]
  /\ op = Op("led_update_hw_start", 0, 0, 0, 0)
  /\ InitDrv
  /\ writers = <<>>

\* ------------------------------------------------------------------------
\* Actions
\* ------------------------------------------------------------------------
Min(a, b) == IF a < b THEN a ELSE b

\* the execution context a handler or command runs in: the three timer
\* interrupts, and main()'s loop for the shell commands
Context(name) ==
  CASE name = "TIMER0A_Handler" -> "button poll"
    [] name = "TIMER1A_Handler" -> "fade tick"
    [] name = "TIMER1B_Handler" -> "lux tick"
    [] OTHER -> "shell loop"

\* the step changes the shared field f
Written(f) ==
  CASE f = "current_brightness" ->
         \E i \in Leds : LED_LIST'[i].current_brightness
                            # LED_LIST[i].current_brightness
    [] f = "desired_brightness" ->
         \E i \in Leds : LED_LIST'[i].desired_brightness
                            # LED_LIST[i].desired_brightness
    [] f = "previous_brightness" ->
         \E i \in Leds : LED_LIST'[i].previous_brightness
                            # LED_LIST[i].previous_brightness
    [] f = "brightness_scale" -> brightness_scale' # brightness_scale
    [] f = "sw_enable" -> sw_enable' # sw_enable
    [] f = "current_profile_index" ->
         current_profile_index' # current_profile_index

\* the context of the step is added to the writers of the fields it changes
Track ==
  writers' = IF writers = <<>> THEN writers
             ELSE [f \in Fields |->
                     IF Written(f) THEN writers[f] \cup {Context(op'.name)}
                     ELSE writers[f]]

\* the button poll interrupt, reading `smp` from the port
Poll(smp) ==
  LET d == debounce(state, cnt0, cnt1, smp)
  IN /\ state' = d.state
     /\ cnt0' = d.cnt0
     /\ cnt1' = d.cnt1
     /\ sample' = smp
     /\ toggle' = d.toggle
     /\ held' = [b \in 0..7 |->
                   IF BitAt(smp, b) # BitAt(state, b)
                   THEN Min((IF BitAt(toggle, b) = 1 THEN 0 ELSE held[b]) + 1,
                            MaxHeld)
                   ELSE 0]
     /\ SetLed(Dispatch(Led, d.toggle, d.state))
     /\ op' = Op("TIMER0A_Handler", smp, 0, 0, 0)
     /\ shell' = IF /\ shell.pc # "idle"
                    /\ BitAnd(d.toggle, BUTTON_POWER) # 0
                    /\ BitAnd(d.state, BUTTON_POWER) = 0
                 THEN [shell EXCEPT !.presses = Min(@ + 1, MaxPresses)]
                 ELSE shell
     /\ UNCHANGED <<ticks, from, i2c, tsl, sub_system_levels>>
     /\ Track

\* the fade timer interrupt
FadeTick ==
  /\ timerA
  /\ SetLed(TIMER1A_Handler(Led))
  /\ op' = Op("TIMER1A_Handler", 0, 0, 0, 0)
  /\ UNCHANGED <<btn_vars, drv_vars>>
  /\ Track

\* ... in the system: explored while every LED is at most at MaxLevel or on
\* its way down
Fade ==
  /\ \A i \in Leds :
       \/ ~UGt(LED_LIST[i].current_brightness, MaxLevel)
       \/ UGt(LED_LIST[i].current_brightness,
              Target(LED_LIST[i].desired_brightness, brightness_scale))
  /\ FadeTick
  /\ UNCHANGED <<ticks, from>>

\* ... over the whole brightness range
FadeFull ==
  /\ FadeTick
  /\ UNCHANGED <<ticks, from>>

\* ... in the fade engine on its own: the ticks are counted
FadeCounted ==
  /\ ticks < MaxTicks
  /\ FadeTick
  /\ ticks' = ticks + 1
  /\ UNCHANGED from

\* the lux timer interrupt; c = 1 when it reads the sensor, d = current_lux
\* as it found it
LuxTick(status, lux) ==
  /\ timerB
  /\ SetLed(TIMER1B_Handler(Led, status, lux))
  /\ op' = Op("TIMER1B_Handler", status, lux,
              IF ~timerA /\ sw_enable THEN 1 ELSE 0, current_lux)
  /\ UNCHANGED <<btn_vars, ticks, from, drv_vars>>
  /\ Track

\* main() after the initialisation: led_profile_load(0)
main ==
  /\ op.name = "led_init"
  /\ SetLed(led_profile_load(Led, 0))
  /\ op' = Op("main", 0, 0, 0, 0)
  /\ UNCHANGED <<btn_vars, ticks, from, drv_vars>>
  /\ Track

cmd_set_brightness(led_type, led_brightness) ==
  /\ SetLed(led_update_hw_start(led_sw_brightness_set(Led, led_type, led_brightness)))
  /\ op' = Op("cmd_set_brightness", led_type, led_brightness, 0, 0)
  /\ UNCHANGED <<btn_vars, ticks, from, drv_vars>>
  /\ Track

cmd_led_off ==
  /\ SetLed(led_sw_enable_set(Led, FALSE))
  /\ op' = Op("cmd_led_off", 0, 0, 0, 0)
  /\ UNCHANGED <<btn_vars, ticks, from, drv_vars>>
  /\ Track

cmd_led_on ==
  /\ SetLed(led_sw_enable_set(Led, TRUE))
  /\ op' = Op("cmd_led_on", 0, 0, 0, 0)
  /\ UNCHANGED <<btn_vars, ticks, from, drv_vars>>
  /\ Track

cmd_load_profile(profile_index) ==
  /\ SetLed(led_profile_load(Led, profile_index))
  /\ op' = Op("cmd_load_profile", profile_index, 0, 0, 0)
  /\ UNCHANGED <<btn_vars, ticks, from, drv_vars>>
  /\ Track

cmd_set_lux_sensitivity(sensitivity) ==
  /\ SetLed(led_update_hw_start(led_lux_sensitivity_set(Led, sensitivity)))
  /\ op' = Op("cmd_set_lux_sensitivity", sensitivity, 0, 0, 0)
  /\ UNCHANGED <<btn_vars, ticks, from, drv_vars>>
  /\ Track

\* a = 1 when it finds the fade timer enabled
cmd_led_update_hw ==
  /\ SetLed(led_update_hw_start(Led))
  /\ op' = Op("cmd_led_update_hw", IF timerA THEN 1 ELSE 0, 0, 0, 0)
  /\ UNCHANGED <<btn_vars, ticks, from, drv_vars>>
  /\ Track

\* ------------------------------------------------------------------------
\* The light sensor driver: tsl2591_lux_get, one callee at a time
\* ------------------------------------------------------------------------
\* tsl2591_lux_get returns s to its caller
LuxGetReturn(T, s) == [T EXCEPT !.pc = "done", !.status = s]

\* status = tsl2591_enable(); RETURN_IF_ERROR(status);
LuxGetEnable(T, status) ==
  IF status # 0 THEN LuxGetReturn(T, status)
  ELSE [T EXCEPT !.pc = "als_valid"]

\* the body of the do-while loop: status = tsl2591_als_valid(
\* &completed_int_cycle); RETURN_IF_ERROR(status);
LuxGetAlsValid(T, status, completed_cycle) ==
  LET T1 == [T EXCEPT !.polls = Min(T.polls + 1, MaxPolls)]
  IN IF status # 0 THEN LuxGetReturn(T1, status)
     ELSE [T1 EXCEPT !.pc = "while", !.completed_int_cycle = completed_cycle]

\* while (completed_int_cycle == false)
LuxGetWhile(T) ==
  IF T.completed_int_cycle = FALSE THEN [T EXCEPT !.pc = "als_valid"]
  ELSE [T EXCEPT !.pc = "disable"]

\* status = tsl2591_disable(); RETURN_IF_ERROR(status);
LuxGetDisable(T, status) ==
  IF status # 0 THEN LuxGetReturn(T, status)
  ELSE [T EXCEPT !.pc = "read"]

\* the end of tsl2591_lux_get without the overflow check
LuxGetRead_unchecked(T, status, overflow, lux) ==
  IF status # 0 THEN LuxGetReturn(T, status)
  ELSE LuxGetReturn([T EXCEPT !.lux = lux], 0)

\* the read of the four channel bytes, the overflow check and the lux
\* calculation, whose result is lux
LuxGetRead(T, status, overflow, lux) ==
  IF status # 0 THEN LuxGetReturn(T, status)
  ELSE IF overflow THEN LuxGetReturn(T, UINT32_MAX)
  ELSE LuxGetReturn([T EXCEPT !.lux = lux], 0)

\* the lux timer interrupt calls tsl2591_lux_get
TslCall ==
  /\ timerB
  /\ ~timerA /\ led_sw_enable_get(Led)
  /\ tsl.pc = "idle"
  /\ tsl' = [TslIdle EXCEPT !.pc = "enable"]
  /\ op' = Op("tsl2591_lux_get", 0, 0, 0, 0)
  /\ UNCHANGED <<btn_vars, led_vars, ticks, from, i2c, sub_system_levels,
                 shell, writers>>

tsl2591_enable(status) ==
  /\ tsl.pc = "enable"
  /\ tsl' = LuxGetEnable(tsl, status)
  /\ op' = Op("tsl2591_enable", status, 0, 0, 0)
  /\ UNCHANGED <<btn_vars, led_vars, ticks, from, i2c, sub_system_levels,
                 shell, writers>>

tsl2591_als_valid(status, completed_cycle) ==
  /\ tsl.pc = "als_valid"
  /\ tsl' = LuxGetAlsValid(tsl, status, completed_cycle)
  /\ op' = Op("tsl2591_als_valid", status, IF completed_cycle THEN 1 ELSE 0,
              0, 0)
  /\ UNCHANGED <<btn_vars, led_vars, ticks, from, i2c, sub_system_levels,
                 shell, writers>>

\* the loop test of tsl2591_lux_get
TslWhile ==
  /\ tsl.pc = "while"
  /\ tsl' = LuxGetWhile(tsl)
  /\ op' = Op("tsl2591_lux_get", 1, 0, 0, 0)
  /\ UNCHANGED <<btn_vars, led_vars, ticks, from, i2c, sub_system_levels,
                 shell, writers>>

tsl2591_disable(status) ==
  /\ tsl.pc = "disable"
  /\ tsl' = LuxGetDisable(tsl, status)
  /\ op' = Op("tsl2591_disable", status, 0, 0, 0)
  /\ UNCHANGED <<btn_vars, led_vars, ticks, from, i2c, sub_system_levels,
                 shell, writers>>

\* the rest of tsl2591_lux_get, from the read of the channel registers
TslRead(status, overflow, lux) ==
  /\ tsl.pc = "read"
  /\ tsl' = LuxGetRead(tsl, status, overflow, lux)
  /\ op' = Op("i2c_register_read", status, IF overflow THEN 1 ELSE 0, 0, 0)
  /\ UNCHANGED <<btn_vars, led_vars, ticks, from, i2c, sub_system_levels,
                 shell, writers>>

\* a step inside tsl2591_lux_get
TslStep ==
  \/ \E status \in LuxStatus : tsl2591_enable(status)
  \/ \E status \in LuxStatus, completed_cycle \in BOOLEAN :
       tsl2591_als_valid(status, completed_cycle)
  \/ TslWhile
  \/ \E status \in LuxStatus : tsl2591_disable(status)
  \/ \E status \in LuxStatus, overflow \in BOOLEAN, lux \in BootLuxInputs :
       TslRead(status, overflow, lux)

\* tsl2591_lux_get has returned: the lux timer interrupt goes on with the
\* status and the reading
TslReturn ==
  /\ tsl.pc = "done"
  /\ SetLed(TIMER1B_Handler(Led, tsl.status, tsl.lux))
  /\ op' = Op("TIMER1B_Handler", tsl.status, tsl.lux, 1, current_lux)
  /\ tsl' = TslIdle
  /\ UNCHANGED <<btn_vars, ticks, from, i2c, sub_system_levels, shell>>
  /\ Track

\* ------------------------------------------------------------------------
\* The I2C transport: i2c_ext.c, one poll of the bus master at a time
\* ------------------------------------------------------------------------
\* the loop giving up one poll late
wait_for_free_master_late(t, busy) ==
  IF ~busy THEN [t EXCEPT !.pc = "check", !.wait = 0]
  ELSE IF t.i + 1 <= MAX_BUSY_POLL_ATTEMPTS THEN [t EXCEPT !.i = t.i + 1]
  ELSE [t EXCEPT !.i = t.i + 1, !.pc = "check",
                 !.wait = I2C_MASTER_ERR_MAX_ATTEMPTS]

\* one round of wait_for_free_master's loop, polling I2CMasterBusy(); i is
\* the loop counter.  The function returns 0 when the master is free and
\* I2C_MASTER_ERR_MAX_ATTEMPTS when the loop runs out
wait_for_free_master(t, busy) ==
  IF ~busy THEN [t EXCEPT !.pc = "check", !.wait = 0]
  ELSE IF t.i + 1 < MAX_BUSY_POLL_ATTEMPTS THEN [t EXCEPT !.i = t.i + 1]
  ELSE [t EXCEPT !.i = t.i + 1, !.pc = "check",
                 !.wait = I2C_MASTER_ERR_MAX_ATTEMPTS]

\* i2c_register_read after a wait_for_free_master(): status |= I2CMasterErr();
\* step 0 sends the register address, steps 1..num_bytes receive a byte each
i2c_register_read(t, err) ==
  LET status == BitOr(t.wait, err)
  IN IF status # 0 THEN [t EXCEPT !.pc = "return", !.status = status]
     ELSE LET t1 == IF t.step = 0 THEN t ELSE [t EXCEPT !.got = t.got + 1]
          IN IF t1.step = t1.num_bytes
             THEN [t1 EXCEPT !.pc = "return", !.status = status]
             ELSE [t1 EXCEPT !.pc = "wait", !.step = t1.step + 1, !.i = 0]

\* i2c_register_write after a wait_for_free_master(): step 0 sends the
\* register address, steps 1..num_bytes send a byte each
i2c_register_write(t, err) ==
  LET status == BitOr(t.wait, err)
  IN IF status # 0 THEN [t EXCEPT !.pc = "return", !.status = status]
     ELSE IF t.step = t.num_bytes
     THEN [t EXCEPT !.pc = "return", !.status = status]
     ELSE [t EXCEPT !.pc = "wait", !.step = t.step + 1, !.i = 0]

\* a transfer is started: the register address is put on the bus
I2CCall(fn, num_bytes) ==
  /\ i2c.pc \in {"idle", "return"}
  /\ i2c' = [I2CIdle EXCEPT !.fn = fn, !.pc = "wait", !.num_bytes = num_bytes]
  /\ op' = Op(IF fn = "read" THEN "i2c_register_read"
              ELSE "i2c_register_write", num_bytes, 0, 0, 0)
  /\ UNCHANGED <<btn_vars, led_vars, ticks, from, tsl, sub_system_levels,
                 shell, writers>>

\* one poll of the bus master
I2CPoll(busy) ==
  /\ i2c.pc = "wait"
  /\ i2c' = wait_for_free_master(i2c, busy)
  /\ op' = Op("wait_for_free_master", IF busy THEN 1 ELSE 0, 0, 0, 0)
  /\ UNCHANGED <<btn_vars, led_vars, ticks, from, tsl, sub_system_levels,
                 shell, writers>>

\* the error check after the wait, I2CMasterErr() returning err
I2CCheck(err) ==
  /\ i2c.pc = "check"
  /\ i2c' = IF i2c.fn = "read" THEN i2c_register_read(i2c, err)
            ELSE i2c_register_write(i2c, err)
  /\ op' = Op("I2CMasterErr", err, 0, 0, 0)
  /\ UNCHANGED <<btn_vars, led_vars, ticks, from, tsl, sub_system_levels,
                 shell, writers>>

\* ------------------------------------------------------------------------
\* The logger: log.c
\* ------------------------------------------------------------------------
\* log_msg's two tests: the message is written to the UART
LogEmitted(levels, sys, level) ==
  /\ ~(sys >= LOG_NUM_SUB_SYSTEMS)
  /\ levels[sys] <= level

\* c = 1 when the message is written to the UART
log_msg(sys, level) ==
  /\ op' = Op("log_msg", sys, level,
              IF LogEmitted(sub_system_levels, sys, level) THEN 1 ELSE 0, 0)
  /\ UNCHANGED <<btn_vars, led_vars, ticks, from, drv_vars, writers>>

log_output_level_set(sys, level) ==
  /\ sub_system_levels' = [sub_system_levels EXCEPT ![sys] = level]
  /\ op' = Op("log_output_level_set", sys, level, 0, 0)
  /\ UNCHANGED <<btn_vars, led_vars, ticks, from, i2c, tsl, shell, writers>>

\* the main loop calls led_sw_enable_set(enable) for "ledon" or "ledoff"
ShellCall(enable) ==
  /\ shell.pc = "idle"
  /\ shell' = [pc |-> "test", enable |-> enable, i |-> 0, L0 |-> Led,
               presses |-> 0]
  /\ op' = Op(IF enable THEN "cmd_led_on" ELSE "cmd_led_off", 1, 0, 0, 0)
  /\ UNCHANGED <<btn_vars, led_vars, ticks, from, i2c, tsl, sub_system_levels,
                 writers>>

\* the main loop runs the next statement of its led_sw_enable_set call
ShellStep ==
  /\ shell.pc # "idle"
  /\ \E r \in {led_sw_enable_set_step(Led, shell)} :
       /\ SetLed(r[1])
       /\ shell' = r[2]
  /\ op' = Op("led_sw_enable_set", 0, 0, 0, 0)
  /\ UNCHANGED <<btn_vars, ticks, from, i2c, tsl, sub_system_levels, writers>>

\* a command the main loop runs between two led_sw_enable_set calls
ShellSetb(led_type, led_brightness) ==
  /\ shell.pc = "idle"
  /\ cmd_set_brightness(led_type, led_brightness)

\* ------------------------------------------------------------------------
\* Specifications
\* ------------------------------------------------------------------------
NextButton == \E smp \in Samples : Poll(smp)

\* the button poll interrupt alone
SpecButton == Init /\ [][NextButton]_vars

NextFade == FadeCounted

\* the fade engine alone, from a fade that has just been set up
SpecFade == InitFade /\ [][NextFade]_vars

NextControl ==
  \/ \E smp \in Samples : Poll(smp)
  \/ \E led_type \in SetbLeds, b \in SetbInputs : cmd_set_brightness(led_type, b)
  \/ cmd_led_off
  \/ cmd_led_on
  \/ \E index \in ProfileInputs : cmd_load_profile(index)

\* buttons and the shell's brightness, enable and profile commands
SpecControl == Init /\ [][NextControl]_vars

NextLux ==
  \/ Fade
  \/ \E status \in LuxStatus, lux \in LuxInputs : LuxTick(status, lux)
  \/ \E led_type \in SetbLeds, b \in SetbInputs : cmd_set_brightness(led_type, b)
  \/ cmd_led_off
  \/ cmd_led_on
  \/ \E s \in SensInputs : cmd_set_lux_sensitivity(s)
  \/ cmd_led_update_hw

\* the two LED timer interrupts and the shell's brightness, enable and
\* sensitivity commands
SpecLux == Init /\ [][NextLux]_vars

NextProfile ==
  \/ Fade
  \/ \E led_type \in SetbLeds, b \in SetbInputs : cmd_set_brightness(led_type, b)
  \/ cmd_led_off
  \/ cmd_led_on
  \/ \E index \in ProfileInputs : cmd_load_profile(index)

\* the shell's brightness, enable and profile commands, and the fade timer
SpecProfile == Init /\ [][NextProfile]_vars

NextCycle ==
  \/ \E smp \in ProfileSamples : Poll(smp)
  \/ \E b \in SetbInputs : cmd_set_brightness(LED_ONBOARD_BLUE, b)
  \/ cmd_led_off
  \/ cmd_led_on

\* the profile button, and the shell's enable command and brightness command
\* on a LED the profiles list
SpecCycle == Init /\ [][NextCycle]_vars

NextBoot ==
  \/ main
  \/ op.name # "led_init" /\ FadeFull
  \/ op.name # "led_init" /\
       \E status \in LuxStatus, lux \in BootLuxInputs : LuxTick(status, lux)
  \/ op.name # "led_init" /\ \E s \in SensInputs : cmd_set_lux_sensitivity(s)

\* main() loading profile 0, then the two LED timer interrupts and the
\* shell's sensitivity command; the fade timer's interrupt is served while
\* the timer is enabled
SpecBoot == Init /\ [][NextBoot]_vars /\ WF_vars(FadeFull)

\* ... where the fade timer's interrupt is served while the timer is enabled
SpecLuxLive == SpecLux /\ WF_vars(Fade)

NextSensor ==
  \/ TslCall
  \/ TslStep
  \/ TslReturn
  \/ tsl.pc = "idle" /\ Fade
  \/ tsl.pc = "idle" /\ \E s \in SensInputs : cmd_set_lux_sensitivity(s)

\* the lux timer interrupt with its call of tsl2591_lux_get taken one callee
\* at a time, the fade timer interrupt and the shell's sensitivity command;
\* a call of tsl2591_lux_get that has not returned goes on running
SpecSensor == Init /\ [][NextSensor]_vars /\ WF_vars(TslStep)

NextOwn ==
  \/ \E smp \in BothSamples : Poll(smp)
  \/ Fade
  \/ \E status \in LuxStatus : LuxTick(status, 20)
  \/ cmd_led_off
  \/ cmd_led_on

\* the three timer interrupts with the two buttons moved together, and the
\* shell's enable commands, keeping the contexts that change each shared
\* field
SpecOwn == InitOwn /\ [][NextOwn]_vars

NextScale ==
  \/ Fade
  \/ \E status \in LuxStatus, lux \in ScaleLux : LuxTick(status, lux)
  \/ \E s \in ScaleSens : cmd_set_lux_sensitivity(s)

\* the two LED timer interrupts and the shell's sensitivity command, with
\* sensitivities and readings at and around the ends of their ranges
SpecScale == Init /\ [][NextScale]_vars

NextRange ==
  \/ FadeFull
  \/ \E status \in LuxStatus, lux \in BootLuxInputs : LuxTick(status, lux)
  \/ cmd_led_off
  \/ cmd_led_on
  \/ cmd_load_profile(RangeProfile)
  \/ \E b \in RangeSetb : cmd_set_brightness(LED_ONBOARD_GREEN, b)
  \/ cmd_set_lux_sensitivity(LED_MAX_LUX_SENSITIVITY)

\* the two LED timer interrupts, the fade over the whole brightness range,
\* and the shell's enable, profile, brightness and sensitivity commands
\* moving one LED between the ends of the range
SpecRange == Init /\ [][NextRange]_vars

\* the system of SpecLux from led_init() with the outcome of its device-ID
\* read kept
SpecAbsent == InitDetect /\ [][NextLux]_vars

NextI2C ==
  \/ \E fn \in {"read", "write"}, n \in I2CBytes : I2CCall(fn, n)
  \/ \E busy \in BOOLEAN : I2CPoll(busy)
  \/ \E err \in I2CErrors : I2CCheck(err)

\* register reads and writes on the I2C bus
SpecI2C == Init /\ [][NextI2C]_vars

NextLog ==
  \/ \E sys \in LogSystems, level \in LogLevels :
       log_output_level_set(sys, level)
  \/ \E sys \in LogSystems \cup {LOG_NUM_SUB_SYSTEMS}, level \in LogLevels :
       log_msg(sys, level)

\* the logger's level setting and messages
SpecLog == Init /\ [][NextLog]_vars

NextFrame ==
  \/ Fade
  \/ \E status \in LuxStatus, lux \in BootLuxInputs : LuxTick(status, lux)
  \/ \E led_type \in SetbLeds, b \in SetbInputs : cmd_set_brightness(led_type, b)
  \/ cmd_led_off
  \/ cmd_led_on
  \/ \E s \in SensInputs : cmd_set_lux_sensitivity(s)
  \/ \E index \in FrameProfiles : cmd_load_profile(index)

\* the two LED timer interrupts and the shell's brightness, enable,
\* sensitivity and profile commands
SpecFrame == Init /\ [][NextFrame]_vars

\* uint8_t indices at the ends of the valid range, just past it and at the
\* top of the type
IndexInputs == {0, num_profiles - 1, num_profiles, 255}

NextIndex ==
  \/ \E smp \in ProfileSamples : Poll(smp)
  \/ \E index \in IndexInputs : cmd_load_profile(index)
  \/ cmd_led_off
  \/ cmd_led_on

\* everything that calls led_profile_load or led_profile_load_next, and the
\* enable commands that gate them
SpecIndex == Init /\ [][NextIndex]_vars

PowerSamples == {BUTTON_CHANGE_PROFILE, BUTTON_POWER + BUTTON_CHANGE_PROFILE}

NextPreempt ==
  \/ \E smp \in PowerSamples : Poll(smp)
  \/ \E enable \in BOOLEAN : ShellCall(enable)
  \/ ShellStep
  \/ \E led_type \in SetbLeds, b \in SetbInputs : ShellSetb(led_type, b)

\* the main loop's ledon and ledoff commands run statement by statement,
\* with the button poll interrupt between any two statements
SpecPreempt == Init /\ [][NextPreempt]_vars

\* ------------------------------------------------------------------------
\* Properties
\* ------------------------------------------------------------------------
Bits == 0..7

Desired(i) == LED_LIST[i].desired_brightness

Previous(i) == LED_LIST[i].previous_brightness

Current(i) == LED_LIST[i].current_brightness

\* the fade target of LED i in the current state
TargetOf(i) == Target(Desired(i), brightness_scale)

AllOnTarget == \A i \in Leds : Current(i) = TargetOf(i)

\* u <= v on uint32_t
ULe(u, v) == ~ULt(v, u)

\* |u - v| on uint32_t
AbsDiff(u, v) == IF ULt(u, v) THEN v - u ELSE u - v

\* the last poll dispatched a press of the profile button
ProfilePress ==
  BitAt(toggle, 4) = 1 /\ BitAt(state, 4) = 0

\* the last step was a lux tick that read the sensor successfully and got a
\* reading which, clamped, is d away from the current_lux of the state before
LuxRead(d) ==
  /\ op'.name = "TIMER1B_Handler"
  /\ op'.c = 1
  /\ op'.a = 0
  /\ d = AbsDiff(ClampLux(Led, op'.b), current_lux)

\* C1 as stated: a level change held for two consecutive debounce() calls is
\* toggled on the second of them.
C1_ToggleOnSecondCall ==
  \A b \in Bits : held[b] = 2 => BitAt(toggle, b) = 1

\* C1 as amended: a bit is toggled exactly on the fourth consecutive
\* debounce() call whose sample differs from the debounced state (so a
\* sustained change gives one toggle, on the fourth call), and the state bit
\* then equals the sampled level.
C1_ToggleOnFourthCall ==
  \A b \in Bits :
    /\ BitAt(toggle, b) = 1 <=> held[b] = 4
    /\ held[b] <= 4
    /\ BitAt(toggle, b) = 1 => BitAt(state, b) = BitAt(sample, b)

\* a press of the power button has just been accepted
C1_Witness ==
  held[0] = 4 /\ BitAt(toggle, 0) = 1 /\ BitAt(state, 0) = 0 /\ BitAt(sample, 0) = 0

\* C2: a bit whose sample has not differed from the debounced state on two
\* consecutive calls is not toggled, and a debounced state bit changes only
\* on a call that toggles it.
C2_NoiseRejected ==
  [][\A b \in Bits :
       /\ BitAt(toggle', b) = 1 => held'[b] >= 2
       /\ BitAt(state', b) # BitAt(state, b) =>
            BitAt(toggle', b) = 1 /\ held'[b] >= 2]_vars

\* a one-sample glitch on the power line, after a press of the profile
\* button has been accepted: nothing toggled, the power bit still released
C2_Witness ==
  /\ held[0] = 1 /\ BitAt(toggle, 0) = 0 /\ BitAt(state, 0) = 1
  /\ BitAt(state, 4) = 0

\* C4 as stated: a fade tick leaves every current_brightness between its
\* value before the tick and the target (unsigned order).
C4_NoOvershoot ==
  [][op'.name = "TIMER1A_Handler" =>
       \A i \in Leds :
         \/ ULe(Current(i), Current(i)') /\ ULe(Current(i)', TargetOf(i))
         \/ ULe(TargetOf(i), Current(i)') /\ ULe(Current(i)', Current(i))]_vars

\* C5 as stated: after |target - start| / step + 1 fade ticks (the largest
\* such number over the LEDs) every LED is on target and the fade timer is
\* disabled.
C5_Converged ==
  LET n(i) == (AbsDiff(TargetOf(i), from[i]) \div brightness_interval) + 1
  IN (\A i \in Leds : ticks >= n(i)) => AllOnTarget /\ ~timerA

\* C6: a fade tick disables the fade timer exactly when every LED was on
\* its target before the tick.
C6_SelfDisable ==
  [][op'.name = "TIMER1A_Handler" => (~timerA' <=> AllOnTarget)]_vars

\* a tick has just stepped the last LED onto its target: timer still enabled
C6_Witness ==
  /\ op.name = "TIMER1A_Handler" /\ timerA /\ AllOnTarget
  /\ \A i \in Leds : from[i] # Current(i)

\* C7: a disable saves every desired_brightness in previous_brightness and
\* zeroes it, previous_brightness is kept while the lamp is disabled, an
\* enable restores every desired_brightness from it, and both start the fade
\* timer.  (A poll that also dispatches a profile press loads the next
\* profile after the enable.)
C7_EnableRoundTrip ==
  [][/\ sw_enable /\ ~sw_enable' =>
          /\ \A i \in Leds : Previous(i)' = Desired(i) /\ Desired(i)' = 0
          /\ timerA'
     /\ ~sw_enable /\ sw_enable' =>
          /\ \A i \in Leds : Previous(i)' = Previous(i)
          /\ ProfilePress' \/ \A i \in Leds : Desired(i)' = Previous(i)
          /\ timerA'
     /\ ~sw_enable /\ ~sw_enable' =>
          \A i \in Leds : Previous(i)' = Previous(i)]_vars

\* the power button has just re-enabled a lamp that was disabled with
\* non-zero brightnesses: they are back
C7_Witness ==
  /\ sw_enable /\ BitAt(toggle, 0) = 1 /\ BitAt(state, 0) = 0 /\ ~ProfilePress
  /\ \A i \in Leds : Desired(i) = Previous(i)
  /\ \A i \in Leds : Desired(i) # 0

\* C8 as stated: a lux tick whose clamped reading is less than the
\* hysteresis away from current_lux changes neither brightness_scale nor
\* current_lux and does not start the fade timer.
C8_HysteresisNoOp ==
  [][\A d \in 0..(LED_LUX_CHANGE_HYSTERESIS - 1) :
       LuxRead(d) => /\ brightness_scale' = brightness_scale
                     /\ current_lux' = current_lux
                     /\ timerA' = timerA]_vars

C10_FaultFallback ==
  [][/\ (op'.name = "TIMER1B_Handler" /\ op'.c = 1 /\ op'.a # 0) =>
          brightness_scale' = FOne /\ ~timerB'
     /\ ~timerB =>
          /\ ~timerB'
          /\ op'.name # "TIMER1B_Handler"
          /\ brightness_scale' = brightness_scale]_vars

\* the sensor failed after a reading had dimmed the lamp, and a shell
\* command and fade ticks have followed: the scale is 1.0, the timer off
C10_Witness ==
  /\ ~timerB /\ ~lux_sensor_found /\ brightness_scale = FOne
  /\ current_lux # UINT32_MAX /\ lux_sensor_sensitivity = 255
  /\ op.name = "TIMER1A_Handler"

\* the last step was a button poll or a shell command
UserInput ==
  op.name \in {"TIMER0A_Handler", "cmd_set_brightness", "cmd_led_off",
               "cmd_led_on", "cmd_load_profile", "cmd_set_lux_sensitivity",
               "cmd_led_update_hw"}

\* every LED is at its desired brightness taken with scale 1.0
AllFull == \A i \in Leds : Current(i) = Target(Desired(i), FOne)

\* a lux tick has just failed to read the sensor, the lamp enabled and some
\* LED below its desired brightness
FaultWhileDimmed ==
  /\ op.name = "TIMER1B_Handler" /\ op.c = 1 /\ op.a # 0
  /\ sw_enable
  /\ \E i \in Leds : ULt(Current(i), Desired(i))

\* C11 as stated: after a failed sensor read that finds the lamp enabled and
\* dimmed, every LED eventually reaches its full desired brightness unless a
\* button or a shell command intervenes.
C11_FaultRecovers == FaultWhileDimmed ~> (AllFull \/ UserInput)

\* C12: a lux tick that finds the fade timer enabled or the lamp disabled
\* reads no sensor and leaves brightness_scale, current_lux and both timers'
\* enable bits as they were; no step taken while the fade timer is enabled
\* changes brightness_scale.
C12_Gated ==
  [][/\ (op'.name = "TIMER1B_Handler" /\ (timerA \/ ~sw_enable)) =>
          /\ op'.c = 0
          /\ brightness_scale' = brightness_scale
          /\ current_lux' = current_lux
          /\ lux_sensor_found' = lux_sensor_found
          /\ timerA' = timerA
          /\ timerB' = timerB
     /\ timerA => brightness_scale' = brightness_scale]_vars

\* a lux tick has just fired on a disabled lamp whose fade had finished, the
\* lamp dimmed by an earlier reading: nothing was read
C12_Witness ==
  /\ op.name = "TIMER1B_Handler" /\ op.c = 0
  /\ ~sw_enable /\ ~timerA /\ timerB
  /\ current_lux = 20
  /\ brightness_scale = BrightnessScale(255, max_lux, 20)

\* a binary32 value in [0, 1] in units of 2^-14, truncated
ScaleIn14(f) ==
  IF f[1] = 0 THEN 0
  ELSE IF f[2] >= -14 THEN f[1] * (2^(f[2] + 14))
  ELSE f[1] \div (2^(-f[2] - 14))

\* 1 - (s/255) * (M - n)/M as a rational, in units of 2^-14, truncated
Exact14(s, M, n) ==
  ((LED_MAX_LUX_SENSITIVITY * M - s * (M - n)) * 16384)
    \div (LED_MAX_LUX_SENSITIVITY * M)

\* the step is a lux tick that read the sensor successfully and did not
\* reject the reading
LuxAccepted ==
  /\ op'.name = "TIMER1B_Handler" /\ op'.c = 1 /\ op'.a = 0
  /\ ~LuxRejected(current_lux, IF UGt(op'.b, max_lux) THEN max_lux ELSE op'.b)

\* C13: a lux tick that accepts a reading sets brightness_scale to
\* 1 - (sensitivity/255) * (max_lux - new_lux)/max_lux for the reading clamped
\* to max_lux (to within 2^-14), stores the clamped reading in current_lux and
\* enables the fade timer; it writes no LED's brightness, PWM pulse width or
\* output enable.
C13_AcceptEffect ==
  [][LuxAccepted =>
       LET new_lux == IF UGt(op'.b, max_lux) THEN max_lux ELSE op'.b
           diff == ScaleIn14(brightness_scale')
                     - Exact14(lux_sensor_sensitivity, max_lux, new_lux)
       IN /\ -1 <= diff /\ diff <= 1
          /\ current_lux' = new_lux
          /\ timerA'
          /\ LED_LIST' = LED_LIST
          /\ pulsewidth' = pulsewidth
          /\ pwm_enable' = pwm_enable]_vars

\* a reading of 49 has just been accepted under sensitivity 255 while the
\* red LED stood at MaxLevel: the scale is about 0.245, the LED not moved
C13_Witness ==
  /\ op.name = "TIMER1B_Handler" /\ op.c = 1 /\ op.a = 0 /\ op.b = 49
  /\ lux_sensor_sensitivity = 255 /\ current_lux = 49 /\ timerA
  /\ ScaleIn14(brightness_scale) = Exact14(255, 200, 49)
  /\ Current(LED_ONBOARD_RED) = MaxLevel /\ Desired(LED_ONBOARD_RED) = MaxLevel

\* C14: led_profile_load on a disabled lamp, or with an index that is not
\* below num_profiles, leaves every desired_brightness, the current profile
\* index and the fade timer's enable bit unchanged.
C14_LoadNoOp ==
  [][(op'.name = "cmd_load_profile" /\ (~sw_enable \/ op'.a >= num_profiles)) =>
       /\ \A i \in Leds : Desired(i)' = Desired(i)
       /\ current_profile_index' = current_profile_index
       /\ timerA' = timerA]_vars

\* profile 1 has just been asked for on a lamp that was disabled under
\* profile 2 and has faded out: index and brightnesses are as they were
C14_Witness ==
  /\ op.name = "cmd_load_profile" /\ op.a = 1
  /\ ~sw_enable /\ ~timerA
  /\ current_profile_index = 2
  /\ Previous(LED_ONBOARD_GREEN) = 100 /\ Desired(LED_ONBOARD_GREEN) = 0

\* the (blue, green) brightness pairs of the three profiles
ProfileValues == <<<<100, 255>>, <<0, 255>>, <<0, 100>>>>

\* C15: led_profile_load with an index below num_profiles on an enabled lamp
\* sets the desired_brightness of blue and green to the profile's values,
\* leaves the desired_brightness of red and every previous_brightness
\* unchanged, records the index and enables the fade timer.
C15_LoadEffect ==
  [][(op'.name = "cmd_load_profile" /\ sw_enable /\ op'.a < num_profiles) =>
       /\ Desired(LED_ONBOARD_BLUE)' = ProfileValues[op'.a + 1][1]
       /\ Desired(LED_ONBOARD_GREEN)' = ProfileValues[op'.a + 1][2]
       /\ Desired(LED_ONBOARD_RED)' = Desired(LED_ONBOARD_RED)
       /\ \A i \in Leds : Previous(i)' = Previous(i)
       /\ current_profile_index' = op'.a
       /\ timerA']_vars

\* profile 2 has just been loaded on a lamp whose red LED is set to
\* MaxLevel and which had been disabled and re-enabled under profile 0
C15_Witness ==
  /\ op.name = "cmd_load_profile" /\ op.a = 2 /\ sw_enable /\ timerA
  /\ current_profile_index = 2
  /\ Desired(LED_ONBOARD_RED) = MaxLevel
  /\ Desired(LED_ONBOARD_BLUE) = 0 /\ Desired(LED_ONBOARD_GREEN) = 100
  /\ Previous(LED_ONBOARD_BLUE) = 100 /\ Previous(LED_ONBOARD_GREEN) = 255

\* the step is a button poll that calls led_profile_load_next (and does not
\* toggle the enable)
NextCalled ==
  op'.name = "TIMER0A_Handler" /\ ProfilePress' /\ BitAt(toggle', 0) = 0

\* the module state after the step and two more led_profile_load_next calls
AfterThree == led_profile_load_next(led_profile_load_next(Led'))

\* C16 as stated: led_profile_load_next on an enabled lamp moves the index to
\* (index + 1) mod num_profiles and loads that profile, num_profiles calls in
\* a row bring the index and the desired_brightness of blue and green back to
\* what they were; on a disabled lamp it leaves the index unchanged.
C16_CycleRestores ==
  [][NextCalled =>
       IF sw_enable
       THEN /\ current_profile_index' = (current_profile_index + 1) % num_profiles
            /\ Desired(LED_ONBOARD_BLUE)' = ProfileValues[current_profile_index' + 1][1]
            /\ Desired(LED_ONBOARD_GREEN)' = ProfileValues[current_profile_index' + 1][2]
            /\ AfterThree.current_profile_index = current_profile_index
            /\ AfterThree.LED_LIST[LED_ONBOARD_BLUE].desired_brightness =
                 Desired(LED_ONBOARD_BLUE)
            /\ AfterThree.LED_LIST[LED_ONBOARD_GREEN].desired_brightness =
                 Desired(LED_ONBOARD_GREEN)
       ELSE current_profile_index' = current_profile_index]_vars

\* C16 as amended: ... num_profiles calls in a row bring the index back to
\* what it was and the desired_brightness of blue and green to the values of
\* the profile at that index, which are the values they had when they were
\* those of the current profile before the calls.
C16_CycleReloads ==
  [][NextCalled =>
       IF sw_enable
       THEN /\ current_profile_index' = (current_profile_index + 1) % num_profiles
            /\ Desired(LED_ONBOARD_BLUE)' = ProfileValues[current_profile_index' + 1][1]
            /\ Desired(LED_ONBOARD_GREEN)' = ProfileValues[current_profile_index' + 1][2]
            /\ timerA'
            /\ AfterThree.current_profile_index = current_profile_index
            /\ AfterThree.LED_LIST[LED_ONBOARD_BLUE].desired_brightness =
                 ProfileValues[current_profile_index + 1][1]
            /\ AfterThree.LED_LIST[LED_ONBOARD_GREEN].desired_brightness =
                 ProfileValues[current_profile_index + 1][2]
            /\ (/\ Desired(LED_ONBOARD_BLUE) = ProfileValues[current_profile_index + 1][1]
                /\ Desired(LED_ONBOARD_GREEN) = ProfileValues[current_profile_index + 1][2])
               => \A i \in Leds : AfterThree.LED_LIST[i].desired_brightness = Desired(i)
       ELSE /\ current_profile_index' = current_profile_index
            /\ \A i \in Leds : Desired(i)' = Desired(i)]_vars

\* a press of the profile button has just wrapped the index from the last
\* profile to the first on an enabled lamp
C16_Witness ==
  /\ op.name = "TIMER0A_Handler" /\ ProfilePress /\ sw_enable
  /\ current_profile_index = 0
  /\ Desired(LED_ONBOARD_BLUE) = 100 /\ Desired(LED_ONBOARD_GREEN) = 255

\* the fade timer is disabled and the LEDs stand at profile 0 taken with the
\* brightness scale (at 0, 100, 255 under scale 1.0)
Settled ==
  /\ ~timerA
  /\ Current(LED_ONBOARD_RED) = 0
  /\ Current(LED_ONBOARD_BLUE) = Target(100, brightness_scale)
  /\ Current(LED_ONBOARD_GREEN) = Target(255, brightness_scale)
  /\ brightness_scale = FOne =>
       Current(LED_ONBOARD_BLUE) = 100 /\ Current(LED_ONBOARD_GREEN) = 255

\* C17: from all LEDs at 0 with desired brightness 0, the load of profile 0
\* (blue 100, green 255) is followed by a state where the fade timer is
\* disabled and the current brightnesses are 0, 100, 255 taken with the
\* brightness scale of that state.
C17_ProfileSettles == (op.name = "main") ~> Settled

\* without a sensor the fade of profile 0 has just ended at 0, 100, 255
C17_Witness ==
  /\ op.name = "TIMER1A_Handler" /\ Settled
  /\ ~lux_sensor_found /\ brightness_scale = FOne
  /\ Current(LED_ONBOARD_BLUE) = 100 /\ Current(LED_ONBOARD_GREEN) = 255
  /\ pulsewidth[LED_ONBOARD_GREEN] = 650

\* the last poll dispatched a press of the power button
PowerPress ==
  BitAt(toggle, 0) = 1 /\ BitAt(state, 0) = 0

\* C18: a button poll toggles the software enable exactly when it has a
\* press edge on the power line, and moves the profile index, by one step
\* with wraparound, exactly when it has a press edge on the profile line and
\* the lamp is then enabled; a poll without a press edge (release edges
\* included) changes nothing of the LED module's state.
C18_Dispatch ==
  [][op'.name = "TIMER0A_Handler" =>
       /\ sw_enable' = (IF PowerPress' THEN ~sw_enable ELSE sw_enable)
       /\ current_profile_index' =
            (IF ProfilePress' /\ sw_enable'
             THEN (current_profile_index + 1) % num_profiles
             ELSE current_profile_index)
       /\ (PowerPress' /\ ~sw_enable') =>
            \A i \in Leds : Previous(i)' = Desired(i) /\ Desired(i)' = 0
       /\ (~PowerPress' /\ ~ProfilePress') => led_vars' = led_vars]_vars

\* the power button has just been released after a press that disabled a
\* lamp set to a non-zero brightness: the lamp is still disabled
C18_Witness ==
  /\ op.name = "TIMER0A_Handler"
  /\ BitAt(toggle, 0) = 1 /\ BitAt(state, 0) = 1
  /\ ~sw_enable
  /\ Previous(LED_ONBOARD_RED) = MaxLevel /\ Desired(LED_ONBOARD_RED) = 0

\* C19: the pulse width written for a brightness b in 0..255 is b below 100
\* and b * b / 100 (integer division) from 100 on; a step to a higher
\* brightness never lowers the pulse width, a step to a lower one never
\* raises it, and the step from 99 to 100 raises it by at most 1.
C19_DriveCurve ==
  [][\A i \in Leds :
       /\ Current(i)' \in 0..255
       /\ pulsewidth'[i] = (IF Current(i)' < 100 THEN Current(i)'
                            ELSE (Current(i)' * Current(i)') \div 100)
       /\ Current(i) < Current(i)' => pulsewidth[i] <= pulsewidth'[i]
       /\ Current(i) > Current(i)' => pulsewidth[i] >= pulsewidth'[i]
       /\ (Current(i) = 99 /\ Current(i)' = 100) =>
            pulsewidth'[i] - pulsewidth[i] <= 1]_vars

\* a fade towards profile 0 has just stepped blue and green from 99 to 100
C19_Witness ==
  /\ op.name = "TIMER1A_Handler" /\ timerA
  /\ Current(LED_ONBOARD_GREEN) = 100 /\ pulsewidth[LED_ONBOARD_GREEN] = 100
  /\ Current(LED_ONBOARD_BLUE) = 100 /\ pulsewidth[LED_ONBOARD_BLUE] = 100
  /\ Desired(LED_ONBOARD_GREEN) = 255 /\ brightness_scale = FOne

\* C20: in every state the PWM output of a LED is enabled exactly when its
\* current_brightness is not 0.
C20_OutputStage ==
  \A i \in Leds : pwm_enable[i] <=> UGt(Current(i), 0)

\* the red LED was raised to MaxLevel, the lamp was disabled, and the fade
\* has taken the LED back to 0: its output is disabled again
C20_Witness ==
  /\ op.name = "TIMER1A_Handler" /\ ~sw_enable /\ ~timerA
  /\ Previous(LED_ONBOARD_RED) = MaxLevel
  /\ Current(LED_ONBOARD_RED) = 0 /\ ~pwm_enable[LED_ONBOARD_RED]
  /\ brightness_scale = FOne

\* C21: every call of tsl2591_lux_get made from a lux tick returns, a value
\* or an error, even when every I2C transfer succeeds and the sensor never
\* reports a completed integration cycle
C21_LuxReadReturns == (tsl.pc \notin {"idle", "done"}) ~> (tsl.pc = "done")

\* C22: after the initialisation each shared field (current, desired and
\* previous brightness, brightness scale, software enable, profile index) is
\* changed from one execution context only
C22_SingleWriter == \A f \in Fields : Cardinality(writers[f]) <= 1

\* 0 <= x <= 1 on binary32
FInUnit(x) == x[1] >= 0 /\ (x[1] = 0 \/ x[2] < -23 \/ x = FOne)

\* C23: brightness_scale lies in [0, 1] in every reachable state
C23_ScaleRange == FInUnit(brightness_scale)

\* a lux tick has just accepted a reading of 0 under the largest sensitivity:
\* the scale is at the lower end of the range
C23_Witness ==
  /\ op.name = "TIMER1B_Handler" /\ op.a = 0 /\ op.c = 1
  /\ op.b = 0 /\ op.d # 0 /\ current_lux = 0
  /\ lux_sensor_sensitivity = LED_MAX_LUX_SENSITIVITY
  /\ brightness_scale = FZero

\* C26: the stored sensitivity is always within 0..255; the sensitivity
\* command with a value above 255 leaves it unchanged and with a value in
\* 0..255 stores that value
C26_SensitivitySet ==
  /\ [](lux_sensor_sensitivity \in 0..LED_MAX_LUX_SENSITIVITY)
  /\ [][op'.name = "cmd_set_lux_sensitivity" =>
          lux_sensor_sensitivity' =
            IF UGt(op'.a, LED_MAX_LUX_SENSITIVITY) THEN lux_sensor_sensitivity
            ELSE op'.a]_vars

\* the command has just been given a value above 255 while a sensitivity
\* other than 0 and 255 was stored
C26_Witness ==
  /\ op.name = "cmd_set_lux_sensitivity"
  /\ UGt(op.a, LED_MAX_LUX_SENSITIVITY)
  /\ lux_sensor_sensitivity = 128

\* C24: every LED's current_brightness is within 0..255 in every reachable
\* state, under profile loads, enable commands, brightness commands with
\* 0..255, lux ticks and fade ticks
C24_CurrentRange == \A i \in Leds : Current(i) \in 0..255

\* a fade tick has just brought the green LED to 255
C24_Witness ==
  /\ op.name = "TIMER1A_Handler"
  /\ Current(LED_ONBOARD_GREEN) = 255

ButTimerA(L) == [L EXCEPT !.timerA = FALSE]

\* the steps whose handler ends with a call of led_update_hw_start
StartCalled ==
  op'.name \in {"cmd_led_update_hw", "cmd_set_brightness",
                "cmd_set_lux_sensitivity"}

\* C27: led_update_hw_start leaves an enabled fade timer enabled and changes
\* nothing else; two calls have the effect of one; and every call made
\* while the timer is disabled enables it
C27_StartIdempotent ==
  /\ [](/\ led_update_hw_start(Led).timerA
        /\ ButTimerA(led_update_hw_start(Led)) = ButTimerA(Led)
        /\ timerA => led_update_hw_start(Led) = Led
        /\ led_update_hw_start(led_update_hw_start(Led))
             = led_update_hw_start(Led))
  /\ [][op'.name = "cmd_led_update_hw" =>
          /\ timerA'
          /\ ButTimerA(Led') = ButTimerA(Led)
          /\ UNCHANGED <<btn_vars, ticks, from, drv_vars>>]_vars
  /\ [][StartCalled => timerA']_vars

\* led_update_hw_start has just been called while the fade timer was
\* enabled and the red LED was on its way up
C27_Witness ==
  /\ op.name = "cmd_led_update_hw" /\ op.a = 1
  /\ timerA
  /\ Current(LED_ONBOARD_RED) # 0
  /\ ULt(Current(LED_ONBOARD_RED), TargetOf(LED_ONBOARD_RED))

\* C28: wait_for_free_master returns 0 at the first poll that finds the bus
\* master free, and I2C_MASTER_ERR_MAX_ATTEMPTS after exactly
\* MAX_BUSY_POLL_ATTEMPTS busy polls; i2c_register_read and
\* i2c_register_write return at the first step whose status (the wait's
\* result or'ed with I2CMasterErr()) is not 0, with that status, and
\* otherwise go through the register address and every byte and return 0
C28_PollingBounded ==
  /\ [](/\ i2c.pc = "wait" => i2c.i < MAX_BUSY_POLL_ATTEMPTS
        /\ i2c.pc = "check" =>
             \/ i2c.wait = 0 /\ i2c.i < MAX_BUSY_POLL_ATTEMPTS
             \/ /\ i2c.wait = I2C_MASTER_ERR_MAX_ATTEMPTS
                /\ i2c.i = MAX_BUSY_POLL_ATTEMPTS
        /\ i2c.pc = "return" =>
             \/ i2c.status # 0
             \/ i2c.step = i2c.num_bytes)
  /\ [][op'.name = "wait_for_free_master" =>
          IF op'.a = 0
          THEN i2c'.pc = "check" /\ i2c'.wait = 0 /\ i2c'.i = i2c.i
          ELSE /\ i2c'.i = i2c.i + 1
               /\ i2c'.pc = IF i2c'.i = MAX_BUSY_POLL_ATTEMPTS THEN "check"
                            ELSE "wait"]_vars
  /\ [][op'.name = "I2CMasterErr" =>
          IF BitOr(i2c.wait, op'.a) # 0
          THEN /\ i2c'.pc = "return"
               /\ i2c'.status = BitOr(i2c.wait, op'.a)
               /\ i2c'.step = i2c.step
          ELSE IF i2c.step = i2c.num_bytes
          THEN i2c'.pc = "return" /\ i2c'.status = 0
          ELSE i2c'.pc = "wait" /\ i2c'.step = i2c.step + 1 /\ i2c'.i = 0]_vars

\* a two-byte read has returned I2C_MASTER_ERR_MAX_ATTEMPTS from its second
\* step, after MAX_BUSY_POLL_ATTEMPTS busy polls
C28_Witness ==
  /\ i2c.fn = "read" /\ i2c.num_bytes = 2
  /\ i2c.pc = "return"
  /\ i2c.step = 1
  /\ i2c.i = MAX_BUSY_POLL_ATTEMPTS
  /\ i2c.status = I2C_MASTER_ERR_MAX_ATTEMPTS

\* C29: after log_output_level_set(sys, L), log_msg for that subsystem
\* writes only messages whose level is at or below L
C29_LevelFilter ==
  [][(/\ op.name = "log_output_level_set"
      /\ op'.name = "log_msg" /\ op'.a = op.a
      /\ op'.c = 1)
       => op'.b <= op.b]_vars

\* C30: debounce() starts from state 0xFF with both counters 0; on every
\* call the toggle mask lies within the bits where the sample differs from
\* the state before the call, and the returned state is the state before
\* the call XOR the toggle mask: equal to the sample at every toggled bit,
\* unchanged at every other bit
C30_StateToggle ==
  /\ (state = 255 /\ cnt0 = 0 /\ cnt1 = 0)
  /\ [][op'.name = "TIMER0A_Handler" =>
          /\ BitAnd(toggle', BitNot(BitXor(sample', state))) = 0
          /\ state' = BitXor(state, toggle')
          /\ \A b \in Bits :
               IF BitAt(toggle', b) = 1
               THEN BitAt(state', b) = BitAt(sample', b)
               ELSE BitAt(state', b) = BitAt(state, b)]_vars

\* a call has just toggled the power button's bit from released to pressed
\* while the profile button's bit, pressed before, was left alone
C30_Witness ==
  /\ op.name = "TIMER0A_Handler"
  /\ BitAt(toggle, 0) = 1 /\ BitAt(state, 0) = 0 /\ BitAt(sample, 0) = 0
  /\ BitAt(toggle, 4) = 0 /\ BitAt(state, 4) = 0

\* C31: brightness_scale changes only in a lux tick that reads the sensor
\* and either fails (the scale becomes 1.0) or accepts the reading; the
\* sensitivity command, profile loads, enable commands, brightness commands
\* and fade ticks leave it unchanged, and the sensitivity command leaves
\* every fade target unchanged
C31_ScaleFrame ==
  /\ [][brightness_scale' # brightness_scale =>
          /\ op'.name = "TIMER1B_Handler" /\ op'.c = 1
          /\ \/ op'.a # 0 /\ brightness_scale' = FOne
             \/ LuxAccepted]_vars
  /\ [][op'.name = "cmd_set_lux_sensitivity" =>
          \A i \in Leds :
            Target(LED_LIST'[i].desired_brightness, brightness_scale')
              = TargetOf(i)]_vars

\* the sensitivity command has just stored 255 after a reading of 20 was
\* accepted under sensitivity 0: the scale is still 1.0 and the red LED's
\* target still its desired brightness
C31_Witness ==
  /\ op.name = "cmd_set_lux_sensitivity" /\ op.a = LED_MAX_LUX_SENSITIVITY
  /\ lux_sensor_sensitivity = LED_MAX_LUX_SENSITIVITY
  /\ lux_sensor_found /\ current_lux = 20
  /\ brightness_scale = FOne
  /\ Desired(LED_ONBOARD_RED) = MaxLevel
  /\ TargetOf(LED_ONBOARD_RED) = MaxLevel

\* C32: while the sensitivity keeps the value 0 that led_init() gives it,
\* brightness_scale is 1.0 in every state from the end of led_init() on,
\* whether or not the sensor was found
C32_ZeroSensitivity ==
  [](lux_sensor_sensitivity = 0) => [](brightness_scale = FOne)

Counter(b) == 2 * BitAt(cnt1, b) + BitAt(cnt0, b)

\* C34: a bit is toggled only on a debounce() call where the sample has
\* differed from the debounced state on that call and on the three calls
\* before it; over such calls the bit's counter goes 01, 10, 11, 00; and a
\* call whose sample matches the state clears the bit's two counter bits
C34_SettleWindow ==
  /\ [](\A b \in Bits :
          /\ BitAt(toggle, b) = 1 => held[b] >= 4
          /\ Counter(b) = held[b] % 4)
  /\ [][op'.name = "TIMER0A_Handler" =>
          \A b \in Bits :
            BitAt(sample', b) = BitAt(state, b) =>
              BitAt(cnt0', b) = 0 /\ BitAt(cnt1', b) = 0]_vars

\* the third call in a row has found the profile button released while its
\* debounced state is pressed: the counter stands at 11, nothing toggled yet
C34_Witness ==
  /\ op.name = "TIMER0A_Handler"
  /\ BitAt(state, 4) = 0 /\ BitAt(sample, 4) = 1
  /\ held[4] = 3 /\ Counter(4) = 3
  /\ BitAt(toggle, 4) = 0

\* what the claim compares: the enable flag and every channel's desired and
\* previous brightness
Observed(L) ==
  <<L.sw_enable,
    [i \in Leds |-> <<L.LED_LIST[i].desired_brightness,
                      L.LED_LIST[i].previous_brightness>>]>>

\* the last step was the return of a led_sw_enable_set call of the main
\* loop during which the button interrupt dispatched n power presses
Returned(n) ==
  shell.pc # "idle" /\ shell'.pc = "idle" /\ shell'.presses = n

\* a led_sw_enable_set call of the main loop that no power press interrupted
\* has done what the call does as a whole
Uninterrupted ==
  [][Returned(0) => Led' = led_sw_enable_set(shell.L0, shell.enable)]_vars

\* C35: when a led_sw_enable_set call of the main loop returns and the
\* button interrupt dispatched one power press (one led_sw_enable_toggle)
\* between two of its statements, the enable flag and the desired and
\* previous brightnesses are those of the call followed by the toggle or of
\* the toggle followed by the call, both taken from the state at the call
C35_EnableAtomic ==
  [][Returned(1) =>
       Observed(Led') \in
         {Observed(led_sw_enable_toggle(
                     led_sw_enable_set(shell.L0, shell.enable))),
          Observed(led_sw_enable_set(
                     led_sw_enable_toggle(shell.L0), shell.enable))}]_vars

\* C36: in every state where the software enable is off, the desired
\* brightness of every LED is 0, whatever button presses and shell commands
\* (profile load, brightness, enable and disable) came before
C36_DarkWhileOff ==
  ~sw_enable => \A i \in Leds : LED_LIST[i].desired_brightness = 0

\* C37: led_sw_enable_set(x) called while the enable flag is x changes
\* nothing of the LED module: a disable of the disabled lamp leaves
\* previous_brightness, an enable of the enabled lamp leaves
\* desired_brightness, and neither enables the fade timer
C37_RedundantEnable ==
  [][((op'.name = "cmd_led_off" /\ ~sw_enable)
        \/ (op'.name = "cmd_led_on" /\ sw_enable)) =>
       UNCHANGED <<led_vars, ticks, from>>]_vars

\* "ledoff" has just run on a lamp that was disabled already, its fade to
\* dark over: the brightness saved by the first disable is still there and
\* the fade timer is still off
C37_Witness ==
  /\ op.name = "cmd_led_off"
  /\ ~sw_enable /\ ~timerA
  /\ LED_LIST[LED_ONBOARD_RED].previous_brightness = MaxLevel
  /\ LED_LIST[LED_ONBOARD_RED].desired_brightness = 0
  /\ LED_LIST[LED_ONBOARD_RED].current_brightness = 0

\* C38: in every state the current profile index is the index of a profile
\* of led_profile_list, whatever uint8_t indices "loadp" was given and
\* however often the profile button was pressed
C38_IndexValid ==
  current_profile_index \in 0..(num_profiles - 1)

\* the profile button has just taken the index from the last profile back
\* to the first
C38_Witness ==
  /\ op.name = "TIMER0A_Handler" /\ ProfilePress
  /\ sw_enable
  /\ current_profile_index = 0
  /\ LED_LIST[led_profile_list[1].led1_type].desired_brightness
       = led_profile_list[1].led1_brightness

\* the bit numbers of the two button lines
Lines == {0, 4}

\* C39: on each button line the edges the poll interrupt dispatches
\* alternate between press and release, the first after startup being a
\* press: both lines start released with no edge dispatched; an edge on a
\* line is a press when the line's debounced state was released before the
\* poll and a release when it was pressed, and leaves the state at what the
\* edge says; a poll without an edge on a line leaves the line's state
C39_EdgesAlternate ==
  /\ [](op.name = "led_init" =>
          \A b \in Lines : BitAt(state, b) = 1 /\ BitAt(toggle, b) = 0)
  /\ [][op'.name = "TIMER0A_Handler" =>
          \A b \in Lines :
            IF BitAt(toggle', b) = 1
            THEN BitAt(state', b) = 1 - BitAt(state, b)
            ELSE BitAt(state', b) = BitAt(state, b)]_vars

\* the poll has just dispatched the release of the power button, after the
\* press that disabled the lamp
C39_Witness ==
  /\ op.name = "TIMER0A_Handler"
  /\ BitAt(toggle, 0) = 1 /\ BitAt(state, 0) = 1
  /\ ~sw_enable

\* the profile after the current one
NextProfile1 == led_profile_list[((current_profile_index + 1) % num_profiles) + 1]

\* C40: a poll that dispatches the press of both buttons applies the enable
\* toggle before the profile advance. If the lamp was enabled it is disabled:
\* every desired brightness is saved and zeroed, and the profile index stays.
\* If the lamp was disabled it is enabled, the index moves to the next
\* profile, the two LEDs of that profile get its brightnesses and the
\* other LEDs the brightness restored from previous_brightness.
C40_ToggleFirst ==
  [][(op'.name = "TIMER0A_Handler" /\ PowerPress' /\ ProfilePress') =>
       IF sw_enable
       THEN /\ ~sw_enable'
            /\ current_profile_index' = current_profile_index
            /\ \A i \in Leds :
                 /\ LED_LIST'[i].desired_brightness = 0
                 /\ LED_LIST'[i].previous_brightness
                      = LED_LIST[i].desired_brightness
       ELSE /\ sw_enable'
            /\ current_profile_index'
                 = (current_profile_index + 1) % num_profiles
            /\ \A i \in Leds :
                 /\ LED_LIST'[i].desired_brightness =
                      IF i = NextProfile1.led1_type
                      THEN NextProfile1.led1_brightness
                      ELSE IF i = NextProfile1.led2_type
                      THEN NextProfile1.led2_brightness
                      ELSE LED_LIST[i].previous_brightness
                 /\ LED_LIST'[i].previous_brightness
                      = LED_LIST[i].previous_brightness]_vars

\* a poll has just dispatched the press of both buttons on a lamp that
\* "ledoff" had disabled with the red LED at MaxLevel: the lamp is enabled,
\* the red LED has its brightness back and the second profile is loaded
C40_Witness ==
  /\ op.name = "TIMER0A_Handler" /\ PowerPress /\ ProfilePress
  /\ sw_enable
  /\ current_profile_index = 1
  /\ LED_LIST[LED_ONBOARD_RED].desired_brightness = MaxLevel
  /\ LED_LIST[LED_ONBOARD_BLUE].desired_brightness = 0
  /\ LED_LIST[LED_ONBOARD_GREEN].desired_brightness = 255

====
